---- MODULE Spec2Model ----
(***************************************************************************)
(* Schedule manager (src/main.py): the in-memory store of busy intervals,  *)
(* the free-slot resolver, the pairwise intersection fold and the message  *)
(* built from it.                                                          *)
(***************************************************************************)
EXTENDS Integers, Sequences, FiniteSets, Bags, TLC

VARIABLES
    SCHEDULES,       \* the module-level dict: person -> list of (start, end)
    added,           \* history: per person, the bag of pairs passed to add_busy_time
    op,              \* the tool called last
    members,         \* the members argument of the last query
    all_free_slots,  \* the local all_free_slots of the last query
    common,          \* the local common of the last query, at its return
    ret,             \* what the last call returned
    raised           \* the exception the last call ended with, or "none"

vars == <<SCHEDULES, added, op, members, all_free_slots, common, ret, raised>>

\* ---------------------------------------------------------------- constants
WORK_START == 9
WORK_END == 18

\* ------------------------------------------------------------------- bounds
\* The most intervals the store holds in all.
MaxBusy == 2
\* The longest members list a query is called with.
MaxMembers == 2

\* The persons the tools are called with.
Names == {"Alice", "Bob", "Carol"}

\* The hours the tools are called with: the working day's ends, one hour
\* inside it and two hours after it.
HourValues == {WORK_START, 13, WORK_END, 19, 20}

\* add_busy_time takes any two integers.
AnyIntervals == HourValues \X HourValues

\* The hours of the stores the queries are applied to: the working day's
\* ends, two hours inside it and one hour after it.
QueryHours == {WORK_START, 12, 15, WORK_END, 19}

\* The intervals of the data model, 0 <= start < end <= 24, over these hours.
ValidIntervals ==
    {p \in QueryHours \X QueryHours : 0 <= p[1] /\ p[1] < p[2] /\ p[2] <= 24}

MemberLists == UNION {[1..n -> Names] : n \in 0..MaxMembers}

\* The most intervals a store the queries are applied to holds in all.
MaxStored == 3
\* The longest members list a query is applied with.
MaxAsked == 3

AskedLists == UNION {[1..n -> Names] : n \in 0..MaxAsked}

NoValue == <<>>

\* ------------------------------------------------------------------ helpers
Max(a, b) == IF a >= b THEN a ELSE b
Min(a, b) == IF a <= b THEN a ELSE b

\* Python's order on tuples of two integers.
TupleLess(a, b) == a[1] < b[1] \/ (a[1] = b[1] /\ a[2] < b[2])

RECURSIVE InsertSorted(_, _)
InsertSorted(x, s) ==
    IF s = <<>> THEN <<x>>
    ELSE IF TupleLess(x, Head(s)) THEN <<x>> \o s
    ELSE <<Head(s)>> \o InsertSorted(x, Tail(s))

\* A sort that keeps one of equal pairs, as sorted(set(busy)) would.
RECURSIVE SortUnique(_)
SortUnique(s) ==
    IF s = <<>> THEN <<>>
    ELSE IF \E i \in 2..Len(s) : s[i] = Head(s) THEN SortUnique(Tail(s))
    ELSE InsertSorted(Head(s), SortUnique(Tail(s)))

\* list.sort(): ascending, by start and then by end.
RECURSIVE Sort(_)
Sort(s) == IF s = <<>> THEN <<>> ELSE InsertSorted(Head(s), Sort(Tail(s)))

\* f"{s}:00-{e}:00"; the en dash of the source is written "-" here, strings
\* being ASCII.
FormatSlot(p) == ToString(p[1]) \o ":00-" \o ToString(p[2]) \o ":00"

\* ", ".join(strs)
RECURSIVE Join(_)
Join(strs) ==
    IF strs = <<>> THEN ""
    ELSE IF Len(strs) = 1 THEN strs[1]
    ELSE strs[1] \o ", " \o Join(Tail(strs))

\* ----------------------------------------------------------- get_free_slots
\* The scan without its test start > current: a slot before every busy interval.
RECURSIVE FreeScanNoGuard(_, _)
FreeScanNoGuard(busy, current) ==
    IF busy = <<>>
    THEN IF current < WORK_END THEN <<<<current, WORK_END>>>> ELSE <<>>
    ELSE <<<<current, Head(busy)[1]>>>>
         \o FreeScanNoGuard(Tail(busy), Max(current, Head(busy)[2]))

\* The loop over the sorted busy list, and the tail after it.
RECURSIVE FreeScan(_, _)
FreeScan(busy, current) ==
    IF busy = <<>>
    THEN IF current < WORK_END THEN <<<<current, WORK_END>>>> ELSE <<>>
    ELSE (IF Head(busy)[1] > current THEN <<<<current, Head(busy)[1]>>>> ELSE <<>>)
         \o FreeScan(Tail(busy), Max(current, Head(busy)[2]))

GetFreeSlots(busy) == FreeScan(Sort(busy), WORK_START)

\* ---------------------------------------------------------------- the store
Known == DOMAIN SCHEDULES

\* SCHEDULES.get(member, [])
GetBusy(S, member) == IF member \in DOMAIN S THEN S[member] ELSE <<>>

StoreSize == LET RECURSIVE Sum(_)
                 Sum(ns) == IF ns = {} THEN 0
                            ELSE LET n == CHOOSE x \in ns : TRUE
                                 IN Len(SCHEDULES[n]) + Sum(ns \ {n})
             IN Sum(Known)

\* busy.sort() sorts the stored list itself: SCHEDULES.get hands out the
\* list the dict holds, and the default [] of an unknown member is a fresh one.
SortStore(S, ms) ==
    [n \in DOMAIN S |->
        IF \E i \in 1..Len(ms) : ms[i] = n THEN Sort(S[n]) ELSE S[n]]

\* The first loop of find_common_free_time.
AllFreeSlots(S, ms) == [i \in 1..Len(ms) |-> GetFreeSlots(GetBusy(S, ms[i]))]

\* An index guarded by a default: nothing raised for an empty list.
IndexFirstDefault(afs) ==
    IF afs = <<>> THEN [raised |-> "none", value |-> <<>>]
    ELSE [raised |-> "none", value |-> afs[1]]

\* all_free_slots[0]
IndexFirst(afs) ==
    IF afs = <<>> THEN [raised |-> "IndexError", value |-> <<>>]
    ELSE [raised |-> "none", value |-> afs[1]]

\* all_free_slots[1:]
SliceRest(afs) == IF afs = <<>> THEN <<>> ELSE Tail(afs)

\* The inner loop with end = a_end in place of min(a_end, b_end).
IntersectOneKeepEnd(a, slots) ==
    SelectSeq([j \in 1..Len(slots) |-> <<Max(a[1], slots[j][1]), a[2]>>],
              LAMBDA p : p[1] < p[2])

\* The inner loop with the test start <= end in place of start < end.
IntersectOneAllowEmpty(a, slots) ==
    SelectSeq([j \in 1..Len(slots) |->
                  <<Max(a[1], slots[j][1]), Min(a[2], slots[j][2])>>],
              LAMBDA p : p[1] <= p[2])

\* The inner loop: one slot a of common against every slot b of slots.
IntersectOne(a, slots) ==
    SelectSeq([j \in 1..Len(slots) |->
                  <<Max(a[1], slots[j][1]), Min(a[2], slots[j][2])>>],
              LAMBDA p : p[1] < p[2])

\* new_common of one round of the fold.
RECURSIVE Intersect(_, _)
Intersect(cmn, slots) ==
    IF cmn = <<>> THEN <<>>
    ELSE IntersectOne(Head(cmn), slots) \o Intersect(Tail(cmn), slots)

\* for slots in all_free_slots[1:]: common = new_common
RECURSIVE FoldSlots(_, _)
FoldSlots(cmn, rest) ==
    IF rest = <<>> THEN cmn ELSE FoldSlots(Intersect(cmn, Head(rest)), Tail(rest))

\* The value of common when find_common_free_time returns.
CommonSlots(S, ms) ==
    LET afs == AllFreeSlots(S, ms)
    IN FoldSlots(IndexFirst(afs).value, SliceRest(afs))

\* [f"{s}:00-{e}:00" for s, e in common]
FormatAll(cmn) == [i \in 1..Len(cmn) |-> FormatSlot(cmn[i])]

NoCommonMessage == "No common free time found for all members today."

\* The body of meeting_message after its call of find_common_free_time.
MeetingText(ms, free_slots) ==
    IF free_slots = <<>> THEN NoCommonMessage
    ELSE "All members (" \o Join(ms) \o ") are available at the following times: "
         \o Join(free_slots) \o ". Please confirm which slot works best."

Init ==
    /\ SCHEDULES = <<>>
    /\ added = [n \in Names |-> EmptyBag]
    /\ op = "none"
    /\ members = <<>>
    /\ all_free_slots = <<>>
    /\ common = <<>>
    /\ ret = NoValue
    /\ raised = "none"

add_busy_time(name, start, end) ==
    /\ StoreSize < MaxBusy
    /\ SCHEDULES' =
          [n \in Known \cup {name} |->
              IF n = name THEN Append(GetBusy(SCHEDULES, name), <<start, end>>)
              ELSE SCHEDULES[n]]
    /\ added' = [added EXCEPT ![name] = @ (+) SetToBag({<<start, end>>})]
    /\ op' = "add_busy_time"
    /\ ret' = "Added busy time for " \o name \o ": " \o FormatSlot(<<start, end>>)
    /\ raised' = "none"
    /\ members' = <<>>
    /\ all_free_slots' = <<>>
    /\ common' = <<>>

\* What a call of find_common_free_time does to the store and its locals.
FindEffect(ms) ==
    /\ SCHEDULES' = SortStore(SCHEDULES, ms)
    /\ all_free_slots' = AllFreeSlots(SCHEDULES, ms)
    /\ raised' = IndexFirst(all_free_slots').raised
    /\ common' = IF raised' = "none"
                 THEN FoldSlots(IndexFirst(all_free_slots').value, SliceRest(all_free_slots'))
                 ELSE <<>>
    /\ members' = ms
    /\ UNCHANGED added

find_common_free_time(ms) ==
    /\ FindEffect(ms)
    /\ op' = "find_common_free_time"
    /\ ret' = IF raised' = "none" THEN FormatAll(common') ELSE NoValue

meeting_message(ms) ==
    /\ FindEffect(ms)
    /\ op' = "meeting_message"
    /\ ret' = IF raised' = "none" THEN MeetingText(ms, FormatAll(common')) ELSE NoValue

Next ==
    \/ \E name \in Names, p \in AnyIntervals : add_busy_time(name, p[1], p[2])
    \/ \E ms \in MemberLists : find_common_free_time(ms)
    \/ \E ms \in MemberLists : meeting_message(ms)

Spec == Init /\ [][Next]_vars

\* --------------------------------------------- the queries as pure functions
RECURSIVE SeqToBag(_)
SeqToBag(s) == IF s = <<>> THEN EmptyBag ELSE SetToBag({Head(s)}) (+) SeqToBag(Tail(s))

\* The dict holding the given lists: a person is a key once a pair was added.
StoreOf(lists) == [n \in {m \in DOMAIN lists : lists[m] # <<>>} |-> lists[n]]

\* Any store of at most MaxStored well-formed intervals, as add_busy_time
\* calls from the empty store leave it.
InitQuery ==
    /\ \E la, lb, lc \in 0..MaxStored :
          /\ la + lb + lc <= MaxStored
          /\ \E a \in [1..la -> ValidIntervals],
                b \in [1..lb -> ValidIntervals],
                c \in [1..lc -> ValidIntervals] :
                /\ SCHEDULES = StoreOf([n \in Names |->
                       IF n = "Alice" THEN a ELSE IF n = "Bob" THEN b ELSE c])
                /\ added = [n \in Names |->
                       SeqToBag(IF n = "Alice" THEN a ELSE IF n = "Bob" THEN b ELSE c)]
    /\ op = "none"
    /\ members = <<>>
    /\ all_free_slots = <<>>
    /\ common = <<>>
    /\ ret = NoValue
    /\ raised = "none"

\* One query applied to the store drawn.
QueryFind == op = "none" /\ \E ms \in AskedLists : find_common_free_time(ms)

QueryMessage == op = "none" /\ \E ms \in AskedLists : meeting_message(ms)

NextQuery == QueryFind \/ QueryMessage

SpecQuery == InitQuery /\ [][NextQuery]_vars

\* ------------------------------------------------------------ the properties
Queries == {"find_common_free_time", "meeting_message"}

\* The hours of a day, and those a list of slots covers.
Hours == 0..24

Covers(slots) ==
    {h \in Hours : \E i \in 1..Len(slots) : slots[i][1] <= h /\ h < slots[i][2]}

\* The hours of the working day at which no listed member has a stored busy
\* interval.
FreeHours(S, ms) ==
    {h \in WORK_START..(WORK_END - 1) :
        \A i \in 1..Len(ms) : h \notin Covers(GetBusy(S, ms[i]))}

\* The hours every one of the free lists covers.
CommonHours(afs) == {h \in Hours : \A i \in 1..Len(afs) : h \in Covers(afs[i])}

ValidStore(S) ==
    \A n \in DOMAIN S : \A i \in 1..Len(S[n]) :
        0 <= S[n][i][1] /\ S[n][i][1] < S[n][i][2] /\ S[n][i][2] <= 24

WithinDay(busy) ==
    \A k \in 1..Len(busy) :
        /\ WORK_START <= busy[k][1] /\ busy[k][1] <= WORK_END
        /\ WORK_START <= busy[k][2] /\ busy[k][2] <= WORK_END

Reorderings(s) ==
    {q \in [1..Len(s) -> {s[i] : i \in 1..Len(s)}] : SeqToBag(q) = SeqToBag(s)}

FoundCommon == op = "find_common_free_time" /\ raised = "none"

\* C1: for a store of well-formed intervals and a non-empty members list, the
\* intervals find_common_free_time returns cover exactly the hours of the
\* working day at which no listed member has a stored busy interval.
C1_CoversFreeHours ==
    (FoundCommon /\ ValidStore(SCHEDULES))
        => Covers(common) = FreeHours(SCHEDULES, members)

\* C2: no interval get_free_slots returns has start >= end, and when every
\* busy interval lies within the working day so does every returned interval.
C2_FreeSlotsWellFormed ==
    op \in Queries =>
        \A i \in 1..Len(all_free_slots) :
            LET busy == GetBusy(SCHEDULES, members[i])
                free == all_free_slots[i]
            IN /\ \A j \in 1..Len(free) : free[j][1] < free[j][2]
               /\ WithinDay(busy) =>
                     \A j \in 1..Len(free) :
                         WORK_START <= free[j][1] /\ free[j][2] <= WORK_END

C2_Witness ==
    /\ op = "find_common_free_time"
    /\ \E i \in 1..Len(all_free_slots) :
          /\ GetBusy(SCHEDULES, members[i]) # <<>>
          /\ WithinDay(GetBusy(SCHEDULES, members[i]))
          /\ Len(all_free_slots[i]) = 2
    /\ \E i \in 1..Len(all_free_slots) : ~WithinDay(GetBusy(SCHEDULES, members[i]))

\* C3: for a store of well-formed intervals, find_common_free_time returns
\* the same sequence for a members list and for every permutation of it.
C3_OrderIndependent ==
    (FoundCommon /\ ValidStore(SCHEDULES)) =>
        \A q \in Reorderings(members) :
            FormatAll(CommonSlots(SCHEDULES, q)) = ret

C3_Witness ==
    /\ FoundCommon
    /\ ValidStore(SCHEDULES)
    /\ Len(members) = 3
    /\ \A i, j \in 1..3 : i # j => all_free_slots[i] # all_free_slots[j]
    /\ \A i \in 1..3 : GetBusy(SCHEDULES, members[i]) # <<>>
    /\ \E i \in 1..3 : Len(all_free_slots[i]) = 2
    /\ ret # <<>>

\* C4: adding a participant with no busy intervals to a non-empty members list
\* does not change what find_common_free_time returns, for a store of
\* well-formed intervals.
C4_FreeParticipantNeutral ==
    (FoundCommon /\ ValidStore(SCHEDULES)) =>
        \A f \in Names :
            GetBusy(SCHEDULES, f) = <<>> =>
                FormatAll(CommonSlots(SCHEDULES, Append(members, f))) = ret

\* C5 as stated: when the members' free intervals have no hour in common,
\* find_common_free_time returns a sequence of one element.
C5_SingleNoneFound ==
    (FoundCommon /\ CommonHours(all_free_slots) = {}) => Len(ret) = 1

\* C5 as amended: when the members' free intervals have no hour in common,
\* find_common_free_time returns the empty sequence.
C5_EmptyWhenNoCommon ==
    (FoundCommon /\ CommonHours(all_free_slots) = {}) => ret = <<>>

C5_Witness ==
    /\ FoundCommon
    /\ CommonHours(all_free_slots) = {}
    /\ Len(members) = 2
    /\ \A i \in 1..Len(all_free_slots) : all_free_slots[i] # <<>>
    /\ ret = <<>>

\* C6: if a listed member has a stored busy interval covering the whole
\* working day, then whatever else the store holds (of intervals of the data
\* model) the common intersection is empty and meeting_message returns the
\* fixed no-common-free-time message.
C6_WholeDayBusyForcesNoCommon ==
    (/\ op = "meeting_message"
     /\ raised = "none"
     /\ ValidStore(SCHEDULES)
     /\ \E i \in 1..Len(members) :
           LET busy == GetBusy(SCHEDULES, members[i])
           IN \E k \in 1..Len(busy) :
                 busy[k][1] <= WORK_START /\ busy[k][2] >= WORK_END)
        => (common = <<>> /\ ret = NoCommonMessage)

\* C7: after any sequence of calls the store holds for each person, as a
\* multiset, exactly the pairs passed to add_busy_time for that person, and a
\* person is a key exactly when a pair was added for them.
C7_StoreIsBagOfAdded ==
    /\ \A n \in Names : SeqToBag(GetBusy(SCHEDULES, n)) = added[n]
    /\ DOMAIN SCHEDULES = {n \in Names : added[n] # EmptyBag}

C7_Witness ==
    /\ op \in Queries
    /\ \E n \in DOMAIN SCHEDULES :
          /\ \E i \in 1..Len(members) : members[i] = n
          /\ Len(SCHEDULES[n]) = 2
          /\ SCHEDULES[n][1] = SCHEDULES[n][2]
          /\ SCHEDULES[n][1][1] > SCHEDULES[n][1][2]

\* C8: a call of find_common_free_time or meeting_message leaves the store as
\* it was: the same keys and, for every person, the same list in the same order.
C8_QueriesLeaveStore ==
    [][op' \in Queries => SCHEDULES' = SCHEDULES]_vars

\* C9: for every busy list add_busy_time can place in the store, the list
\* get_free_slots returns is sorted by start and pairwise non-overlapping.
C9_FreeSlotsSorted ==
    op \in Queries =>
        \A i \in 1..Len(all_free_slots) :
            LET free == all_free_slots[i]
            IN \A j \in 1..(Len(free) - 1) :
                   free[j][1] <= free[j + 1][1] /\ free[j][2] <= free[j + 1][1]

\* C10: a query called with an empty members list ends in an error, returns
\* nothing and leaves the store unchanged.
C10_EmptyMembersRaise ==
    [][(op' \in Queries /\ members' = <<>>) =>
          (raised' = "IndexError" /\ ret' = NoValue /\ SCHEDULES' = SCHEDULES)]_vars

C10_Witness ==
    /\ op = "meeting_message"
    /\ members = <<>>
    /\ raised = "IndexError"
    /\ DOMAIN SCHEDULES # {}

====
